---- MODULE Spec2Model ----
(***************************************************************************)
(* Model of src/type_checker.rs: the TypeChecker of a stack-based          *)
(* language.  One TypeChecker instance (types, ctx, locals) is driven by   *)
(* type_check, which runs collect_types, collect_constructors,             *)
(* collect_defs and type_check_defs over the top-level items it is given.  *)
(***************************************************************************)
EXTENDS Integers, Sequences, FiniteSets, TLC

VARIABLES
    types,       \* TypeChecker.types : HashSet<String>
    ctx,         \* TypeChecker.ctx   : HashMap<String, Type>
    locals,      \* TypeChecker.locals: Vec<(String, Type)>
    top_levels,  \* the argument of the type_check call in progress
    pc,          \* position of the call: which phase runs next
    i,           \* type_check_defs: index of the top-level item
    j,           \* type_check_defs: index of the branch
    k,           \* type_check_defs: index of the body expression
    locals_len,  \* type_check_defs: locals.len() saved before the branch
    stack,       \* type_check_defs: the simulated stack of the branch
    result,      \* what the call returned: "Ok", an error kind, "panic"
    last,        \* the last body expression checked (or the end of the body),
                 \* with the stack before it and what the check returned
    phases,      \* the phases the call in progress has entered, in order
    results      \* the results of the calls made on this instance, in order

vars == <<types, ctx, locals, top_levels, pc, i, j, k, locals_len,
          stack, result, last, phases, results>>

-----------------------------------------------------------------------------
(* Bounds of the model *)

MaxItems == 3
MaxBody == 2
MaxRuns == 2
MaxBranches == 2

-----------------------------------------------------------------------------
(* Syntax trees of crate::parser, as the checker reads them *)

TWord(w) == [kind |-> "Word", word |-> w]
TQuotation(ins, outs) == [kind |-> "Quotation", inputs |-> ins, outputs |-> outs]

PAll(n) == [kind |-> "All", name |-> n]
PConstructor(n, args) == [kind |-> "Constructor", name |-> n, arguments |-> args]

EWord(w) == [kind |-> "Word", word |-> w]
EQuotation(ins, body) == [kind |-> "Quotation", inputs |-> ins, quotation |-> body]
EUnquote == [kind |-> "Unquote"]

Constructor(n, args) == [name |-> n, argument_types |-> args]
Branch(pats, body) == [patterns |-> pats, body |-> body]
Data(n, ctors) == [kind |-> "Data", name |-> n, constructors |-> ctors]
Def(n, ins, outs, brs) ==
    [kind |-> "Def", name |-> n, inputs |-> ins, outputs |-> outs, branches |-> brs]

(* enum Type *)
Basic(n) == [tag |-> "Basic", name |-> n]
Function(ins, outs) == [tag |-> "Function", inputs |-> ins, outputs |-> outs]
Quotation(ins, outs) == [tag |-> "Quotation", inputs |-> ins, outputs |-> outs]

(* TypeCheckResult: Ok(value), Err(kind), or a panic of the thread *)
Ok(v) == [err |-> "none", val |-> v]
Err(e) == [err |-> e, val |-> <<>>]
Panic == [err |-> "panic", val |-> <<>>]

TypeCheckError ==
    {"TypeAlreadyDefined", "SymbolAlreadyDefined", "TypeMismatch", "UnboundSymbol"}

-----------------------------------------------------------------------------
(* fn type_expr *)

RECURSIVE type_expr(_)
type_expr(te) ==
    IF te.kind = "Word"
    THEN Basic(te.word)
    ELSE Quotation([n \in 1..Len(te.inputs) |-> type_expr(te.inputs[n])],
                   [n \in 1..Len(te.outputs) |-> type_expr(te.outputs[n])])

type_exprs(tes) == [n \in 1..Len(tes) |-> type_expr(tes[n])]

(* a lookup that takes the first local of the name, not the last *)
resolve_word_first(ls, cx, word) ==
    LET hits == {n \in 1..Len(ls) : ls[n][1] = word}
    IN  IF hits # {}
        THEN Ok(ls[CHOOSE n \in hits : \A m \in hits : n <= m][2])
        ELSE IF word \in DOMAIN cx
             THEN Ok(cx[word])
             ELSE Err("UnboundSymbol")

(* fn resolve_word: the last local of that name, else the global entry *)
resolve_word(ls, cx, word) ==
    LET hits == {n \in 1..Len(ls) : ls[n][1] = word}
    IN  IF hits # {}
        THEN Ok(ls[CHOOSE n \in hits : \A m \in hits : m <= n][2])
        ELSE IF word \in DOMAIN cx
             THEN Ok(cx[word])
             ELSE Err("UnboundSymbol")

(* an insert that never reports the entry it replaced *)
insert_silent(cx, name, ty) ==
    [map |-> [n \in (DOMAIN cx) \cup {name} |-> IF n = name THEN ty ELSE cx[n]],
     is_some |-> FALSE]

(* HashMap::insert: stores the value, replacing the one of an equal key, and
   returns the value it replaced *)
insert(cx, name, ty) ==
    [map |-> [n \in (DOMAIN cx) \cup {name} |-> IF n = name THEN ty ELSE cx[n]],
     is_some |-> name \in DOMAIN cx]

-----------------------------------------------------------------------------
(* fn collect_types: the loop from item n on, over the set ts *)

RECURSIVE collect_types_loop(_, _, _)
collect_types_loop(tl, n, ts) ==
    IF n > Len(tl)
    THEN [types |-> ts, res |-> "Ok"]
    ELSE IF tl[n].kind = "Data"
         THEN IF tl[n].name \in ts
              THEN [types |-> ts, res |-> "TypeAlreadyDefined"]
              ELSE collect_types_loop(tl, n + 1, ts \cup {tl[n].name})
         ELSE collect_types_loop(tl, n + 1, ts)

(* the (name, signature) pairs collect_constructors inserts, in order *)
constructor_type(type_name, c) ==
    <<c.name, Function(type_exprs(c.argument_types), <<Basic(type_name)>>)>>

RECURSIVE constructor_entries(_, _)
constructor_entries(tl, n) ==
    IF n > Len(tl)
    THEN <<>>
    ELSE IF tl[n].kind = "Data"
         THEN [m \in 1..Len(tl[n].constructors) |->
                  constructor_type(tl[n].name, tl[n].constructors[m])]
              \o constructor_entries(tl, n + 1)
         ELSE constructor_entries(tl, n + 1)

(* the (name, signature) pair of a definition *)
def_type(d) == <<d.name, Function(type_exprs(d.inputs), type_exprs(d.outputs))>>

(* a collect_defs that registers the definitions up to item n alone *)
def_entries_upto(tl, n) ==
    IF n <= Len(tl) /\ tl[n].kind = "Def" THEN <<def_type(tl[n])>> ELSE <<>>

(* the (name, signature) pairs collect_defs inserts, in order *)
RECURSIVE def_entries(_, _)
def_entries(tl, n) ==
    IF n > Len(tl)
    THEN <<>>
    ELSE IF tl[n].kind = "Def"
         THEN <<def_type(tl[n])>> \o def_entries(tl, n + 1)
         ELSE def_entries(tl, n + 1)

(* the insertion loop shared by collect_constructors and collect_defs: stops
   at the first insertion that replaced an entry *)
RECURSIVE insert_loop(_, _, _)
insert_loop(cx, entries, n) ==
    IF n > Len(entries)
    THEN [ctx |-> cx, res |-> "Ok"]
    ELSE LET r == insert(cx, entries[n][1], entries[n][2])
         IN  IF r.is_some
             THEN [ctx |-> r.map, res |-> "SymbolAlreadyDefined"]
             ELSE insert_loop(r.map, entries, n + 1)

-----------------------------------------------------------------------------
(* fn pattern_fits: Ok(TRUE), Ok(FALSE), or the panic of unreachable!() *)

RECURSIVE pattern_fits(_, _, _)
RECURSIVE all_fit(_, _, _, _)

(* a fit that does not compare the number of sub-patterns *)
constructor_pattern_fits_any_arity(cx, input, pattern) ==
    IF pattern.name \notin DOMAIN cx
    THEN Ok(FALSE)
    ELSE IF cx[pattern.name].tag # "Function"
    THEN Ok(FALSE)
    ELSE IF Len(cx[pattern.name].outputs) # 1
    THEN Panic
    ELSE IF cx[pattern.name].outputs[1] # input
    THEN Ok(FALSE)
    ELSE all_fit(cx, cx[pattern.name].inputs, pattern.arguments, 1)

constructor_pattern_fits(cx, input, pattern) ==
    IF pattern.name \notin DOMAIN cx
    THEN Ok(FALSE)
    ELSE IF cx[pattern.name].tag # "Function"
    THEN Ok(FALSE)
    ELSE IF Len(cx[pattern.name].outputs) # 1
    THEN Panic
    ELSE IF cx[pattern.name].outputs[1] # input
    THEN Ok(FALSE)
    ELSE IF Len(cx[pattern.name].inputs) # Len(pattern.arguments)
    THEN Ok(FALSE)
    ELSE all_fit(cx, cx[pattern.name].inputs, pattern.arguments, 1)

pattern_fits(cx, input, pattern) ==
    IF pattern.kind = "All"
    THEN Ok(TRUE)
    ELSE constructor_pattern_fits(cx, input, pattern)

(* inputs.iter().zip(patterns).all(pattern_fits), from pair n on: stops at
   the first pair that does not fit *)
all_fit(cx, inputs, patterns, n) ==
    IF n > Len(inputs) \/ n > Len(patterns)
    THEN Ok(TRUE)
    ELSE LET r == pattern_fits(cx, inputs[n], patterns[n])
         IN  IF r.err = "none" /\ r.val
             THEN all_fit(cx, inputs, patterns, n + 1)
             ELSE r

(* fn define_pattern_locals: the locals after binding pattern to input *)
RECURSIVE define_pattern_locals(_, _, _, _)
RECURSIVE define_all(_, _, _, _, _)

define_pattern_locals(ls, cx, input, pattern) ==
    IF pattern.kind = "All"
    THEN Ok(Append(ls, <<pattern.name, input>>))
    ELSE IF pattern.name \notin DOMAIN cx
    THEN Panic
    ELSE IF cx[pattern.name].tag # "Function"
    THEN Panic
    ELSE define_all(ls, cx, cx[pattern.name].inputs, pattern.arguments, 1)

(* for (input, pattern) in inputs.zip(patterns), from pair n on *)
define_all(ls, cx, inputs, patterns, n) ==
    IF n > Len(inputs) \/ n > Len(patterns)
    THEN Ok(ls)
    ELSE LET r == define_pattern_locals(ls, cx, inputs[n], patterns[n])
         IN  IF r.err = "none"
             THEN define_all(r.val, cx, inputs, patterns, n + 1)
             ELSE r

-----------------------------------------------------------------------------
(* fn type_check_expr: Ok(stack after), Err(kind), or a panic *)

(* a call that pushes the outputs without removing the inputs *)
call_function_keeping(ty, st) ==
    IF Len(ty.inputs) > Len(st)
    THEN Err("TypeMismatch")
    ELSE IF SubSeq(st, Len(st) - Len(ty.inputs) + 1, Len(st)) # ty.inputs
    THEN Err("TypeMismatch")
    ELSE Ok(st \o ty.outputs)

(* a word resolved to a Function: the call *)
call_function(ty, st) ==
    IF Len(ty.inputs) > Len(st)
    THEN Err("TypeMismatch")
    ELSE IF SubSeq(st, Len(st) - Len(ty.inputs) + 1, Len(st)) # ty.inputs
    THEN Err("TypeMismatch")
    ELSE Ok(SubSeq(st, 1, Len(st) - Len(ty.inputs)) \o ty.outputs)

(* a word that pushes whatever it resolves to, a Function included *)
word_expr_value(ty, st) ==
    Ok(Append(st, ty))

(* Expr::Word, once resolved to ty *)
word_expr(ty, st) ==
    IF ty.tag = "Function"
    THEN call_function(ty, st)
    ELSE Ok(Append(st, ty))

(* an Apply that unwraps the popped slot: a panic on the empty stack *)
unquote_expr_unwrap(st) ==
    IF st = <<>>
    THEN Panic
    ELSE IF st[Len(st)].tag # "Quotation"
    THEN Err("TypeMismatch")
    ELSE LET q == st[Len(st)]
             rest == SubSeq(st, 1, Len(st) - 1)
         IN  IF Len(q.inputs) > Len(rest)
             THEN Panic
             ELSE IF SubSeq(rest, Len(rest) - Len(q.inputs) + 1, Len(rest)) # q.inputs
             THEN Err("TypeMismatch")
             ELSE Ok(SubSeq(rest, 1, Len(rest) - Len(q.inputs)) \o q.outputs)

(* an Apply that leaves the inputs of the quotation under its outputs *)
unquote_expr_keeping(st) ==
    IF st = <<>>
    THEN Err("TypeMismatch")
    ELSE IF st[Len(st)].tag # "Quotation"
    THEN Err("TypeMismatch")
    ELSE LET q == st[Len(st)]
             rest == SubSeq(st, 1, Len(st) - 1)
         IN  IF Len(q.inputs) > Len(rest)
             THEN Panic
             ELSE IF SubSeq(rest, Len(rest) - Len(q.inputs) + 1, Len(rest)) # q.inputs
             THEN Err("TypeMismatch")
             ELSE Ok(rest \o q.outputs)

(* Expr::Unquote.  stack.len() - inputs.len() is a usize subtraction: with
   more inputs than slots it overflows (a panic in a debug build) or wraps to
   a start index beyond the slice (a panic in a release build) *)
unquote_expr(st) ==
    IF st = <<>>
    THEN Err("TypeMismatch")
    ELSE IF st[Len(st)].tag # "Quotation"
    THEN Err("TypeMismatch")
    ELSE LET q == st[Len(st)]
             rest == SubSeq(st, 1, Len(st) - 1)
         IN  IF Len(q.inputs) > Len(rest)
             THEN Panic
             ELSE IF SubSeq(rest, Len(rest) - Len(q.inputs) + 1, Len(rest)) # q.inputs
             THEN Err("TypeMismatch")
             ELSE Ok(SubSeq(rest, 1, Len(rest) - Len(q.inputs)) \o q.outputs)

(* a literal that leaves the outputs of its body on the enclosing stack *)
quotation_expr_inline(inputs, outputs, st) ==
    Ok(st \o outputs)

(* Expr::Quotation, once its body left the stack outputs *)
quotation_expr(inputs, outputs, st) ==
    Ok(Append(st, Quotation(inputs, outputs)))

RECURSIVE type_check_expr(_, _, _, _)
RECURSIVE type_check_exprs(_, _, _, _, _)

(* a checker whose quotation bodies see no local of the enclosing branch *)
type_check_expr_closed(ls, cx, expr, st) ==
    IF expr.kind = "Word"
    THEN LET r == resolve_word(ls, cx, expr.word)
         IN  IF r.err = "none" THEN word_expr(r.val, st) ELSE r
    ELSE IF expr.kind = "Quotation"
    THEN LET inputs == type_exprs(expr.inputs)
             r == type_check_exprs(<<>>, cx, expr.quotation, inputs, 1)
         IN  IF r.err = "none" THEN quotation_expr(inputs, r.val, st) ELSE r
    ELSE unquote_expr(st)

type_check_expr(ls, cx, expr, st) ==
    IF expr.kind = "Word"
    THEN LET r == resolve_word(ls, cx, expr.word)
         IN  IF r.err = "none" THEN word_expr(r.val, st) ELSE r
    ELSE IF expr.kind = "Quotation"
    THEN LET inputs == type_exprs(expr.inputs)
             r == type_check_exprs(ls, cx, expr.quotation, inputs, 1)
         IN  IF r.err = "none" THEN quotation_expr(inputs, r.val, st) ELSE r
    ELSE unquote_expr(st)

(* for expr in exprs { type_check_expr(expr, stack)? }, from expression n on *)
type_check_exprs(ls, cx, exprs, st, n) ==
    IF n > Len(exprs)
    THEN Ok(st)
    ELSE LET r == type_check_expr(ls, cx, exprs[n], st)
         IN  IF r.err = "none"
             THEN type_check_exprs(ls, cx, exprs, r.val, n + 1)
             ELSE r

(* a comparison of the final stack by its depth alone *)
outputs_differ_in_depth(outputs, st) == Len(outputs) # Len(st)

(* line 208: outputs != stack *)
outputs_differ(outputs, st) == outputs # st

(* a truncate that leaves the vector as it is *)
truncate_nothing(ls, len) == ls

(* line 206: Vec::truncate *)
truncate(ls, len) == IF len < Len(ls) THEN SubSeq(ls, 1, len) ELSE ls

(* a binder that also enters the bound names in the global table *)
ctx_after_patterns_global(cx, ls) ==
    [n \in (DOMAIN cx) \cup {ls[m][1] : m \in 1..Len(ls)} |->
        IF \E m \in 1..Len(ls) : ls[m][1] = n
        THEN ls[CHOOSE m \in 1..Len(ls) : ls[m][1] = n][2]
        ELSE cx[n]]

(* define_pattern_locals writes self.locals alone: the global table after the
   patterns were bound as the locals ls *)
ctx_after_patterns(cx, ls) == cx

(* type_check_defs: (inputs, outputs) of the definition named name *)
def_signature(cx, name) ==
    IF cx[name].tag = "Function"
    THEN [inputs |-> cx[name].inputs, outputs |-> cx[name].outputs]
    ELSE [inputs |-> <<>>, outputs |-> <<cx[name]>>]

-----------------------------------------------------------------------------
(* The programs handed to type_check *)

A == TWord("A")
QAA == TQuotation(<<A>>, <<A>>)

(* items for the three collection phases: clashing and distinct names *)
BuildItems ==
    { Data("A", <<Constructor("T", <<>>)>>),
      Data("A", <<Constructor("U", <<>>)>>),
      Data("B", <<Constructor("T", <<A>>)>>),
      Data("B", <<Constructor("f", <<>>)>>),
      Data("B", <<Constructor("U", <<>>), Constructor("U", <<A>>)>>),
      Def("f", <<A>>, <<A>>, <<Branch(<<PAll("x")>>, <<EWord("x")>>)>>),
      Def("f", <<>>, <<A>>, <<Branch(<<>>, <<EWord("T")>>)>>),
      Def("g", <<>>, <<>>, <<Branch(<<>>, <<EWord("u")>>)>>) }

SeqsUpTo(S, n) == UNION {[1..m -> S] : m \in 0..n}

BuildPrograms == SeqsUpTo(BuildItems, MaxItems) \ {<<>>}

(* declarations every body and pattern program ends with, so that the
   definition under test refers forward to them *)
DataA == Data("A", <<Constructor("T", <<>>), Constructor("S", <<A>>)>>)
DefDup == Def("dup", <<A>>, <<A, A>>, <<Branch(<<PAll("x")>>, <<EWord("x"), EWord("x")>>)>>)
DefMul == Def("mul", <<A, A>>, <<A>>, <<Branch(<<PAll("x"), PAll("y")>>, <<EWord("x")>>)>>)
Context == <<DataA, DefDup, DefMul>>

BodyExprs ==
    { EWord("x"), EWord("T"), EWord("dup"), EWord("u"),
      EUnquote,
      EQuotation(<<A>>, <<>>),
      EQuotation(<<A>>, <<EWord("dup"), EWord("mul")>>),
      EQuotation(<<>>, <<EWord("x")>>),
      EQuotation(<<A>>, <<EUnquote>>) }

Bodies == SeqsUpTo(BodyExprs, MaxBody)

(* declared inputs, declared outputs and patterns of the definition under test *)
BodyHeads ==
    { <<(<<>>), (<<A>>), (<<>>)>>,
      <<(<<A>>), (<<A>>), (<<>>)>>,
      <<(<<A>>), (<<A, A>>), (<<>>)>>,
      <<(<<A>>), (<<A>>), (<<PAll("x")>>)>>,
      <<(<<A, QAA>>), (<<A>>), (<<>>)>>,
      <<(<<QAA, A>>), (<<A>>), (<<PAll("x")>>)>> }

BodyProgram(h, body) == <<Def("f", h[1], h[2], <<Branch(h[3], body)>>)>> \o Context

Patterns ==
    { PAll("x"), PAll("T"),
      PConstructor("T", <<>>),
      PConstructor("S", <<PAll("x")>>),
      PConstructor("S", <<PConstructor("S", <<PAll("x")>>)>>),
      PConstructor("S", <<>>),
      PConstructor("S", <<PAll("x"), PAll("y")>>),
      PConstructor("mul", <<PAll("x"), PAll("x")>>),
      PConstructor("dup", <<PAll("x")>>),
      PConstructor("Z", <<>>) }

PatternSeqs == [1..1 -> Patterns] \cup [1..2 -> Patterns]

PatternProgram(ins, pats, body) == <<Def("f", ins, <<A>>, <<Branch(pats, body)>>)>> \o Context

(* branches of a definition f(A [A -> A] -> A): they bind the same names at
   different types, repeat and overlap each other, and one refers to a name
   that only other branches bind *)
Branches ==
    { Branch(<<PAll("x"), PAll("y")>>, <<EWord("x")>>),
      Branch(<<PAll("y"), PAll("x")>>, <<EWord("y"), EWord("x"), EUnquote>>),
      Branch(<<PAll("y")>>, <<EWord("x")>>),
      Branch(<<PConstructor("T", <<>>), PAll("x")>>, <<EWord("T")>>),
      Branch(<<PConstructor("S", <<PAll("x")>>), PAll("y")>>, <<EWord("x")>>),
      Branch(<<PAll("x"), PAll("y")>>, <<EWord("y")>>) }

BranchSeqs == SeqsUpTo(Branches, MaxBranches) \ {<<>>}

BranchProgram(branches) == <<Def("f", <<A, QAA>>, <<A>>, branches)>> \o Context

-----------------------------------------------------------------------------
(* The state machine *)

NoStep == [expr |-> [kind |-> "None"], before |-> <<>>, res |-> Ok(<<>>)]

Init ==
    /\ types = {}
    /\ ctx = [n \in {} |-> n]
    /\ locals = <<>>
    /\ top_levels = <<>>
    /\ pc = "idle"
    /\ i = 1
    /\ j = 1
    /\ k = 1
    /\ locals_len = 0
    /\ stack = <<>>
    /\ result = "none"
    /\ last = NoStep
    /\ phases = <<>>
    /\ results = <<>>

(* the call returns r to its caller, or unwinds with a panic *)
Return(r) ==
    /\ pc' = IF r = "panic" THEN "panicked" ELSE "idle"
    /\ result' = r
    /\ results' = Append(results, r)

(* a driver that goes on to the next phase whatever the phase returned *)
Try_ignoring(r, next) ==
    /\ pc' = next
    /\ phases' = Append(phases, next)
    /\ UNCHANGED <<result, results>>

(* the ? operator: go on to phase next when r is Ok, return r otherwise *)
Try(r, next) ==
    IF r = "Ok"
    THEN /\ pc' = next
         /\ phases' = Append(phases, next)
         /\ UNCHANGED <<result, results>>
    ELSE /\ Return(r)
         /\ UNCHANGED phases

(* pub fn type_check is called with the items p *)
type_check(p) ==
    /\ pc = "idle"
    /\ Len(results) < MaxRuns
    /\ top_levels' = p
    /\ pc' = "collect_types"
    /\ phases' = <<"collect_types">>
    /\ result' = "none"
    /\ i' = 1 /\ j' = 1 /\ k' = 1 /\ locals_len' = 0 /\ stack' = <<>>
    /\ last' = NoStep
    /\ UNCHANGED <<types, ctx, locals, results>>

(* the first call on the instance: type_check on a program made of clashing
   and distinct declarations *)
CallBuild ==
    /\ results = <<>>
    /\ \E p \in BuildPrograms : type_check(p)

(* the first call on the instance: type_check on a program whose first
   definition has one branch with the body under test *)
CallBody ==
    /\ results = <<>>
    /\ \E h \in BodyHeads, body \in Bodies : type_check(BodyProgram(h, body))

(* the first call on the instance: type_check on a program whose first
   definition has one branch with the patterns under test *)
CallPattern ==
    /\ results = <<>>
    /\ \E ins \in {<<A>>, <<A, QAA>>}, pats \in PatternSeqs,
          body \in {<<EWord("x")>>, <<EWord("T")>>} :
            type_check(PatternProgram(ins, pats, body))

(* the first call on the instance: type_check on a program whose first
   definition has the branches under test *)
CallBranches ==
    /\ results = <<>>
    /\ \E branches \in BranchSeqs : type_check(BranchProgram(branches))

(* a later call on the same instance, with the same program *)
CallAgain ==
    /\ results # <<>>
    /\ type_check(top_levels)

collect_types ==
    /\ pc = "collect_types"
    /\ LET r == collect_types_loop(top_levels, 1, types)
       IN  /\ types' = r.types
           /\ Try(r.res, "collect_constructors")
    /\ UNCHANGED <<ctx, locals, top_levels, i, j, k, locals_len, stack, last>>

collect_constructors ==
    /\ pc = "collect_constructors"
    /\ LET r == insert_loop(ctx, constructor_entries(top_levels, 1), 1)
       IN  /\ ctx' = r.ctx
           /\ Try(r.res, "collect_defs")
    /\ UNCHANGED <<types, locals, top_levels, i, j, k, locals_len, stack, last>>

collect_defs ==
    /\ pc = "collect_defs"
    /\ LET r == insert_loop(ctx, def_entries(top_levels, 1), 1)
       IN  /\ ctx' = r.ctx
           /\ Try(r.res, "type_check_defs")
    /\ UNCHANGED <<types, locals, top_levels, i, j, k, locals_len, stack, last>>

(* type_check_defs, at the head of its loops *)
AtBranch ==
    /\ pc = "type_check_defs"
    /\ i <= Len(top_levels)
    /\ top_levels[i].kind = "Def"
    /\ j <= Len(top_levels[i].branches)

(* lines 186-202: the patterns of branch j are fitted and bound, and the
   stack is seeded with the inputs left over *)
begin_branch ==
    /\ AtBranch
    /\ LET signature == def_signature(ctx, top_levels[i].name)
           patterns == top_levels[i].branches[j].patterns
           np == Len(patterns)
           inputs == SubSeq(signature.inputs, 1, np)
           leftover == SubSeq(signature.inputs, np + 1, Len(signature.inputs))
           fits == all_fit(ctx, inputs, patterns, 1)
           bound == define_all(locals, ctx, inputs, patterns, 1)
       IN  IF Len(signature.inputs) < np
           THEN Return("TypeMismatch") /\ UNCHANGED <<ctx, locals, locals_len, stack, k>>
           ELSE IF fits.err # "none"
           THEN Return("panic") /\ UNCHANGED <<ctx, locals, locals_len, stack, k>>
           ELSE IF ~fits.val
           THEN Return("TypeMismatch") /\ UNCHANGED <<ctx, locals, locals_len, stack, k>>
           ELSE IF bound.err # "none"
           THEN Return("panic") /\ UNCHANGED <<ctx, locals, locals_len, stack, k>>
           ELSE /\ locals_len' = Len(locals)
                /\ locals' = bound.val
                /\ ctx' = ctx_after_patterns(ctx, bound.val)
                /\ stack' = leftover
                /\ k' = 1
                /\ pc' = "body"
                /\ UNCHANGED <<result, results>>
    /\ last' = NoStep
    /\ UNCHANGED <<types, top_levels, i, j, phases>>

(* lines 203-205: one expression of the body of branch j *)
body_expr ==
    /\ pc = "body"
    /\ k <= Len(top_levels[i].branches[j].body)
    /\ LET expr == top_levels[i].branches[j].body[k]
           r == type_check_expr(locals, ctx, expr, stack)
       IN  /\ last' = [expr |-> expr, before |-> stack, res |-> r]
           /\ IF r.err = "none"
              THEN /\ stack' = r.val
                   /\ k' = k + 1
                   /\ UNCHANGED <<pc, result, results>>
              ELSE /\ Return(r.err)
                   /\ UNCHANGED <<stack, k>>
    /\ UNCHANGED <<types, ctx, locals, top_levels, i, j, locals_len, phases>>

(* lines 206-210: the locals are cut back and the stack is compared with the
   declared outputs *)
end_branch ==
    /\ pc = "body"
    /\ k > Len(top_levels[i].branches[j].body)
    /\ locals' = truncate(locals, locals_len)
    /\ IF outputs_differ(def_signature(ctx, top_levels[i].name).outputs, stack)
       THEN Return("TypeMismatch") /\ UNCHANGED j
       ELSE /\ pc' = "type_check_defs"
            /\ j' = j + 1
            /\ UNCHANGED <<result, results>>
    /\ last' = [expr |-> [kind |-> "End"], before |-> stack, res |-> Ok(<<>>)]
    /\ UNCHANGED <<types, ctx, top_levels, i, k, locals_len, stack, phases>>

(* line 177: the next top-level item *)
next_top_level ==
    /\ pc = "type_check_defs"
    /\ i <= Len(top_levels)
    /\ ~AtBranch
    /\ i' = i + 1
    /\ j' = 1
    /\ last' = NoStep
    /\ UNCHANGED <<types, ctx, locals, top_levels, pc, k, locals_len, stack,
                   result, phases, results>>

(* line 214: every definition checked *)
type_check_defs_ok ==
    /\ pc = "type_check_defs"
    /\ i > Len(top_levels)
    /\ Return("Ok")
    /\ last' = NoStep
    /\ UNCHANGED <<types, ctx, locals, top_levels, i, j, k, locals_len, stack, phases>>

Next ==
    \/ CallBuild
    \/ CallBody
    \/ CallPattern
    \/ CallBranches
    \/ CallAgain
    \/ collect_types
    \/ collect_constructors
    \/ collect_defs
    \/ begin_branch
    \/ body_expr
    \/ end_branch
    \/ next_top_level
    \/ type_check_defs_ok

Spec == Init /\ [][Next]_vars

-----------------------------------------------------------------------------
(* Vocabulary of the properties *)

Returned == result # "none"

PhaseOrder == <<"collect_types", "collect_constructors", "collect_defs", "type_check_defs">>

DataItems(tl) == {n \in 1..Len(tl) : tl[n].kind = "Data"}
DefItems(tl) == {n \in 1..Len(tl) : tl[n].kind = "Def"}

(* the places of a program that declare a global symbol: <<item, constructor>>
   for a constructor, <<item, 0>> for a function *)
SymbolPlaces(tl) ==
    UNION {{<<n, m>> : m \in 1..Len(tl[n].constructors)} : n \in DataItems(tl)}
        \cup {<<n, 0>> : n \in DefItems(tl)}

SymbolAt(tl, pl) ==
    IF pl[2] = 0 THEN tl[pl[1]].name ELSE tl[pl[1]].constructors[pl[2]].name

HasDupType(tl) ==
    \E a, b \in DataItems(tl) : a # b /\ tl[a].name = tl[b].name

HasDupSymbol(tl) ==
    \E a, b \in SymbolPlaces(tl) :
        /\ a # b
        /\ SymbolAt(tl, a) = SymbolAt(tl, b)

HasDupConstructor(tl) ==
    \E a, b \in SymbolPlaces(tl) :
        /\ a # b
        /\ a[2] # 0 /\ b[2] # 0
        /\ SymbolAt(tl, a) = SymbolAt(tl, b)

-----------------------------------------------------------------------------
(* C1 as stated: a program with two data declarations of one name fails with
   TypeAlreadyDefined, and a program with two constructors, two functions or
   a constructor and a function of one name fails with SymbolAlreadyDefined;
   neither returns TypeMismatch or Ok. *)
C1_DuplicateKinds ==
    Returned =>
        /\ HasDupType(top_levels) => result = "TypeAlreadyDefined"
        /\ HasDupSymbol(top_levels) => result = "SymbolAlreadyDefined"

(* C1 as amended: a program with two data declarations of one name fails
   with TypeAlreadyDefined; a program with two symbols of one name fails with
   SymbolAlreadyDefined when the type-name collection succeeds and with
   TypeAlreadyDefined when it fails, and on a fresh checker it succeeds
   exactly when no two data declarations share a name; the program never
   gets TypeMismatch, UnboundSymbol or Ok. *)
C1_DuplicateRejection ==
    Returned =>
        /\ HasDupType(top_levels) => result = "TypeAlreadyDefined"
        /\ HasDupSymbol(top_levels) =>
              /\ Len(phases) >= 2 => result = "SymbolAlreadyDefined"
              /\ Len(phases) < 2 => result = "TypeAlreadyDefined"
              /\ (Len(results) = 1 /\ ~HasDupType(top_levels))
                    => result = "SymbolAlreadyDefined"

(* a constructor and a function share a name in a program whose function
   bodies are ill-typed, and the call has failed with SymbolAlreadyDefined *)
C1_Witness ==
    /\ Returned
    /\ Len(results) = 1
    /\ Len(top_levels) = 2
    /\ top_levels[1].kind = "Def" /\ top_levels[2].kind = "Data"
    /\ top_levels[1].name = "f" /\ top_levels[1].branches[1].body = <<EWord("T")>>
    /\ top_levels[2].constructors[1].name = "f"
    /\ result = "SymbolAlreadyDefined"

(* C2: every call starts from an empty type-name set, global table and local
   scope, so a second call with the same program on the same instance
   returns what the first returned. *)
C2_FreshPerInvocation ==
    /\ pc = "collect_types" => (types = {} /\ DOMAIN ctx = {} /\ locals = <<>>)
    /\ Len(results) >= 2 => results[2] = results[1]

(* C3: the phases are entered in the fixed order and none after a failed
   one; the error returned is that of the earliest failing phase: a duplicate
   type name wins over a duplicate symbol, a duplicate constructor over a
   duplicate function, and any of them over whatever the bodies contain. *)
C3_PhaseOrder ==
    /\ \E n \in 0..4 : phases = SubSeq(PhaseOrder, 1, n)
    /\ Returned =>
        /\ result = "TypeAlreadyDefined" => Len(phases) = 1
        /\ result = "SymbolAlreadyDefined" => Len(phases) \in {2, 3}
        /\ result \in {"TypeMismatch", "UnboundSymbol", "Ok", "panic"} => Len(phases) = 4
        /\ HasDupType(top_levels) => Len(phases) = 1
        /\ HasDupConstructor(top_levels) => Len(phases) <= 2
        /\ HasDupSymbol(top_levels) => Len(phases) <= 3

(* two data declarations of one name follow a declaration with two
   constructors of one name, and the call has returned the error of the
   type-name collection *)
C3_Witness ==
    /\ Returned
    /\ Len(top_levels) = 3
    /\ HasDupConstructor(<<top_levels[1]>>)
    /\ HasDupType(<<top_levels[2], top_levels[3]>>)
    /\ result = "TypeAlreadyDefined"
    /\ phases = <<"collect_types">>

(* the words an expression refers to, those of nested quotations included *)
RECURSIVE WordsOf(_)
WordsOf(expr) ==
    IF expr.kind = "Word" THEN {expr.word}
    ELSE IF expr.kind = "Quotation"
    THEN UNION {WordsOf(expr.quotation[n]) : n \in 1..Len(expr.quotation)}
    ELSE {}

GlobalNames(tl) == {SymbolAt(tl, pl) : pl \in SymbolPlaces(tl)}

(* C4: when the bodies are checked the global table holds the signature of
   every constructor and every function of the program, so UnboundSymbol is
   returned only for an expression with a word that no declaration of the
   program names. *)
C4_GlobalsBeforeBodies ==
    /\ pc \in {"type_check_defs", "body"} =>
        /\ \A n \in DefItems(top_levels) :
              /\ top_levels[n].name \in DOMAIN ctx
              /\ ctx[top_levels[n].name] =
                    Function(type_exprs(top_levels[n].inputs), type_exprs(top_levels[n].outputs))
        /\ \A n \in DataItems(top_levels) :
              \A m \in 1..Len(top_levels[n].constructors) :
                 /\ top_levels[n].constructors[m].name \in DOMAIN ctx
                 /\ ctx[top_levels[n].constructors[m].name] =
                       Function(type_exprs(top_levels[n].constructors[m].argument_types),
                                <<Basic(top_levels[n].name)>>)
    /\ result = "UnboundSymbol" =>
          \E w \in WordsOf(last.expr) : w \notin GlobalNames(top_levels)

(* the body of the first item has called dup, a function declared two items
   later, and the call was accepted *)
C4_Witness ==
    /\ pc = "body"
    /\ i = 1
    /\ Len(top_levels) = 4 /\ top_levels[3].name = "dup"
    /\ last.expr = EWord("dup")
    /\ last.res.err = "none"

(* the stack a branch ends with, computed from the program text: the declared
   inputs beyond the patterns, driven through the body under the bindings of
   the patterns *)
BranchFinal(tl, cx, n, m) ==
    LET inputs == type_exprs(tl[n].inputs)
        patterns == tl[n].branches[m].patterns
        np == Len(patterns)
        bound == define_all(<<>>, cx, SubSeq(inputs, 1, np), patterns, 1)
    IN  type_check_exprs(bound.val, cx, tl[n].branches[m].body,
                         SubSeq(inputs, np + 1, Len(inputs)), 1)

(* C5: type_check returns Ok only if every branch of every definition drives
   the stack seeded with the inputs left over after its patterns to exactly
   the declared outputs; a branch that ends with another stack makes
   type_check return TypeMismatch. *)
C5_BranchesReachOutputs ==
    /\ result = "Ok" =>
          \A n \in DefItems(top_levels) :
             \A m \in 1..Len(top_levels[n].branches) :
                /\ Len(top_levels[n].branches[m].patterns) <= Len(top_levels[n].inputs)
                /\ BranchFinal(top_levels, ctx, n, m) = Ok(type_exprs(top_levels[n].outputs))
    /\ (last.expr.kind = "End" /\ last.before # type_exprs(top_levels[i].outputs))
          => result = "TypeMismatch"

(* a branch has ended with one slot of a type other than the declared output *)
C5_Witness ==
    /\ last.expr.kind = "End"
    /\ Len(last.before) = 1
    /\ type_exprs(top_levels[i].outputs) = <<Basic("A")>>
    /\ last.before[1].tag = "Quotation"
    /\ result = "TypeMismatch"

(* what the spec says of Apply on the stack st: TypeMismatch when the top is
   no quotation, or the slots under it are fewer than or differ from its
   inputs; else those slots replaced by its outputs *)
ApplySays(st) ==
    IF st = <<>> \/ st[Len(st)].tag # "Quotation"
    THEN Err("TypeMismatch")
    ELSE LET q == st[Len(st)]
             n == Len(q.inputs)
             rest == SubSeq(st, 1, Len(st) - 1)
         IN  IF n > Len(rest) \/ SubSeq(rest, Len(rest) - n + 1, Len(rest)) # q.inputs
             THEN Err("TypeMismatch")
             ELSE Ok(SubSeq(rest, 1, Len(rest) - n) \o q.outputs)

(* C6: an Apply whose popped quotation has n inputs returns TypeMismatch when
   the remaining stack is shorter than n or its top n slots differ from the
   inputs, and otherwise removes those n slots and pushes the outputs. *)
C6_ApplyChecksInputs ==
    (/\ last.expr.kind = "Unquote"
     /\ last.before # <<>>
     /\ last.before[Len(last.before)].tag = "Quotation")
        => last.res = ApplySays(last.before)

(* C7: an Apply on an empty stack, or on a stack whose top is a Basic type,
   fails with TypeMismatch. *)
C7_ApplyNeedsQuotation ==
    (/\ last.expr.kind = "Unquote"
     /\ \/ last.before = <<>>
        \/ last.before[Len(last.before)].tag = "Basic")
        => (last.res = Err("TypeMismatch") /\ result = "TypeMismatch")

(* an Apply was checked on the empty stack *)
C7_Witness ==
    /\ last.expr.kind = "Unquote"
    /\ last.before = <<>>
    /\ result = "TypeMismatch"

(* C8: a word that resolves to Function{inputs, outputs} fails with
   TypeMismatch when the stack is shorter than inputs or its top slots differ
   from inputs; otherwise the top inputs.len() slots are replaced by outputs,
   the depth changes by outputs.len() - inputs.len() and the slots below are
   unchanged. *)
C8_CallEffect ==
    (/\ last.expr.kind = "Word"
     /\ resolve_word(locals, ctx, last.expr.word).err = "none"
     /\ resolve_word(locals, ctx, last.expr.word).val.tag = "Function")
        => LET f == resolve_word(locals, ctx, last.expr.word).val
               n == Len(f.inputs)
               st == last.before
           IN  IF \/ n > Len(st)
                  \/ \E m \in 1..n : st[Len(st) - n + m] # f.inputs[m]
               THEN last.res = Err("TypeMismatch") /\ result = "TypeMismatch"
               ELSE /\ last.res.err = "none"
                    /\ stack = last.res.val
                    /\ Len(stack) = Len(st) - n + Len(f.outputs)
                    /\ \A m \in 1..(Len(st) - n) : stack[m] = st[m]
                    /\ \A m \in 1..Len(f.outputs) : stack[Len(st) - n + m] = f.outputs[m]

(* dup, with one input and two outputs, was called on a stack of two slots *)
C8_Witness ==
    /\ last.expr = EWord("dup")
    /\ Len(last.before) = 2
    /\ last.res.err = "none"
    /\ Len(stack) = 3

(* the positions of the local scope that bind the name w *)
Bindings(w) == {n \in 1..Len(locals) : locals[n][1] = w}

(* C9: a word resolves to the most recently pushed local of its name, else to
   the global entry, and fails with UnboundSymbol exactly when the name is in
   neither; a word resolved to a Basic or Quotation type pushes that type as
   one slot and consumes nothing. *)
C9_WordResolution ==
    last.expr.kind = "Word" =>
        LET w == last.expr.word
        IN  IF Bindings(w) # {}
            THEN LET top == CHOOSE n \in Bindings(w) : \A m \in Bindings(w) : m <= n
                 IN  /\ locals[top][2].tag \in {"Basic", "Quotation"}
                     /\ last.res = Ok(Append(last.before, locals[top][2]))
            ELSE IF w \in DOMAIN ctx
            THEN /\ last.res.err # "UnboundSymbol"
                 /\ ctx[w].tag \in {"Basic", "Quotation"}
                       => last.res = Ok(Append(last.before, ctx[w]))
                 /\ ctx[w].tag = "Function"
                       => last.res = call_function(ctx[w], last.before)
            ELSE last.res = Err("UnboundSymbol") /\ result = "UnboundSymbol"

(* the word T was checked where two locals of that name, of different types,
   hide the constructor T, and the type of the later local was pushed *)
C9_Witness ==
    /\ last.expr = EWord("T")
    /\ "T" \in DOMAIN ctx
    /\ Len(locals) = 2
    /\ locals[1][1] = "T" /\ locals[2][1] = "T"
    /\ locals[1][2] # locals[2][2]
    /\ last.res = Ok(Append(last.before, locals[2][2]))

(* C10: pattern_fits returns true or false for every expected type and every
   pattern, the head of the pattern being a constructor or a function with
   any number of outputs: a call that ends while the patterns of a branch are
   fitted ends by type_check returning TypeMismatch, and in no other way. *)
C10_PatternFitsTotal ==
    (/\ Returned
     /\ Len(phases) = 4
     /\ i <= Len(top_levels)
     /\ last.expr.kind = "None")
        => result = "TypeMismatch"

-----------------------------------------------------------------------------
(* the definition and the branch the call is at, or was at when it returned *)
InBranch ==
    /\ Len(phases) = 4
    /\ i <= Len(top_levels)
    /\ top_levels[i].kind = "Def"
    /\ j <= Len(top_levels[i].branches)

(* the bindings the patterns of branch m of item n introduce, from the
   program text *)
OwnBindings(tl, cx, n, m) ==
    define_all(<<>>, cx, type_exprs(tl[n].inputs), tl[n].branches[m].patterns, 1).val

(* branch m of item n, taken alone, is accepted *)
BranchAccepted(tl, cx, n, m) ==
    LET inputs == type_exprs(tl[n].inputs)
        patterns == tl[n].branches[m].patterns
    IN  /\ Len(patterns) <= Len(inputs)
        /\ all_fit(cx, inputs, patterns, 1) = Ok(TRUE)
        /\ BranchFinal(tl, cx, n, m) = Ok(type_exprs(tl[n].outputs))

(* C11: while a branch body is checked the local scope holds exactly the
   bindings of that branch's own patterns, so each branch gets the verdict it
   would get alone, whatever branches passed before it: a call that reaches
   the bodies returns Ok exactly when every branch taken alone is accepted,
   repeated and overlapping branches included. *)
C11_BranchesIndependent ==
    /\ (pc = "body" \/ (InBranch /\ last.expr.kind \in {"Word", "Quotation", "Unquote"}))
          => locals = OwnBindings(top_levels, ctx, i, j)
    /\ (Returned /\ Len(phases) = 4) =>
          (result = "Ok" <=>
              \A n \in DefItems(top_levels) :
                 \A m \in 1..Len(top_levels[n].branches) :
                    BranchAccepted(top_levels, ctx, n, m))

(* the second branch of a definition binds x to the quotation type after the
   first bound it to A, and its body has pushed the quotation type for x *)
C11_Witness ==
    /\ pc = "body"
    /\ i = 1 /\ j = 2
    /\ top_levels[1].branches[1].patterns = <<PAll("x"), PAll("y")>>
    /\ top_levels[1].branches[2].patterns = <<PAll("y"), PAll("x")>>
    /\ last.expr = EWord("x")
    /\ last.res = Ok(<<Basic("A"), Quotation(<<Basic("A")>>, <<Basic("A")>>)>>)

(* a step of the call in progress *)
Step ==
    \/ collect_types
    \/ collect_constructors
    \/ collect_defs
    \/ begin_branch
    \/ body_expr
    \/ end_branch
    \/ next_top_level
    \/ type_check_defs_ok

(* C12: a call of type_check goes on step by step over the finite program
   until it returns, and what it returns is Ok or one of the four errors. *)
C12_EventuallyReturns ==
    /\ pc # "idle" => ENABLED Step
    /\ Returned => result \in TypeCheckError \cup {"Ok"}

(* C13: when type_check_defs has stopped checking a branch, on whatever exit
   path, the local scope has the length it had before the patterns of the
   branch were bound. *)
C13_LocalsRestored ==
    pc # "body" => Len(locals) = locals_len

-----------------------------------------------------------------------------
(* what the specification says of a fitting pattern *)
RECURSIVE FitsSays(_, _, _)

FitsSays(cx, expected, pattern) ==
    \/ pattern.kind = "All"
    \/ /\ pattern.kind = "Constructor"
       /\ pattern.name \in DOMAIN cx
       /\ cx[pattern.name].tag = "Function"
       /\ cx[pattern.name].outputs = <<expected>>
       /\ Len(cx[pattern.name].inputs) = Len(pattern.arguments)
       /\ \A m \in 1..Len(pattern.arguments) :
              FitsSays(cx, cx[pattern.name].inputs[m], pattern.arguments[m])

(* a constructor pattern, at any depth, whose number of sub-patterns is not
   the number of inputs of its head *)
RECURSIVE WrongArity(_, _)

WrongArity(cx, pattern) ==
    /\ pattern.kind = "Constructor"
    /\ \/ /\ pattern.name \in DOMAIN cx
          /\ cx[pattern.name].tag = "Function"
          /\ Len(cx[pattern.name].inputs) # Len(pattern.arguments)
       \/ \E m \in 1..Len(pattern.arguments) : WrongArity(cx, pattern.arguments[m])

(* the patterns of the branch the call is at, and the inputs they face *)
PatternsAt == top_levels[i].branches[j].patterns

ExpectedAt == def_signature(ctx, top_levels[i].name).inputs

FittingStopped ==
    /\ Returned
    /\ Len(phases) = 4
    /\ i <= Len(top_levels)
    /\ last.expr.kind = "None"

(* C14: pattern_fits is true exactly for a catch-all pattern and for a
   constructor pattern whose head is a Function of the global table with the
   expected type as its single output, as many inputs as the pattern has
   sub-patterns, and sub-patterns that fit these inputs in order: the body of
   a branch is entered only when every pattern fits in this sense, the
   branch is refused with TypeMismatch only when its patterns outnumber the
   inputs or one of them does not, and a pattern of the wrong arity never
   lets the body be entered. *)
C14_PatternFits ==
    /\ AtBranch =>
          \A n \in 1..Len(PatternsAt) : n <= Len(ExpectedAt) =>
              (pattern_fits(ctx, ExpectedAt[n], PatternsAt[n]) = Ok(TRUE)
                  <=> FitsSays(ctx, ExpectedAt[n], PatternsAt[n]))
    /\ (pc = "body" /\ last.expr.kind = "None") =>
          /\ Len(PatternsAt) <= Len(ExpectedAt)
          /\ \A n \in 1..Len(PatternsAt) :
                /\ FitsSays(ctx, ExpectedAt[n], PatternsAt[n])
                /\ ~WrongArity(ctx, PatternsAt[n])
    /\ (FittingStopped /\ result = "TypeMismatch") =>
          \/ Len(PatternsAt) > Len(ExpectedAt)
          \/ \E n \in 1..Len(PatternsAt) : ~FitsSays(ctx, ExpectedAt[n], PatternsAt[n])

(* f(A -> A) with the pattern S(): S is a constructor of A, the pattern has
   no sub-pattern for the one input of S, and the branch is refused *)
C14_Witness ==
    /\ FittingStopped
    /\ result = "TypeMismatch"
    /\ PatternsAt = <<PConstructor("S", <<>>)>>
    /\ ExpectedAt = <<Basic("A")>>

-----------------------------------------------------------------------------
(* the last step checked a quotation literal *)
AfterLiteral == last.expr.kind = "Quotation"

(* the separate stack of the literal: seeded with its declared inputs, after
   its body *)
IsolatedStack == type_check_exprs(locals, ctx, last.expr.quotation, type_exprs(last.expr.inputs), 1)

(* C15: a quotation literal with declared inputs I leaves the slots of the
   enclosing stack as they are and pushes one slot Quotation(I, O), O being
   the separate stack seeded with I after the body; the slot pushed is the
   same over any enclosing stack; a failure of the body is the failure of
   the literal and of the call. *)
C15_QuotationLiteral ==
    AfterLiteral =>
        IF IsolatedStack.err = "none"
        THEN /\ last.res.err = "none"
             /\ Len(last.res.val) = Len(last.before) + 1
             /\ SubSeq(last.res.val, 1, Len(last.before)) = last.before
             /\ last.res.val[Len(last.res.val)] =
                    Quotation(type_exprs(last.expr.inputs), IsolatedStack.val)
             /\ type_check_expr(locals, ctx, last.expr, <<>>) =
                    Ok(<<last.res.val[Len(last.res.val)]>>)
             /\ pc = "body"
             /\ stack = last.res.val
        ELSE /\ last.res = IsolatedStack
             /\ Returned
             /\ result = IsolatedStack.err

(* [A -> dup mul] checked over the stack A [A -> A] *)
C15_Witness ==
    /\ last.expr = EQuotation(<<A>>, <<EWord("dup"), EWord("mul")>>)
    /\ last.before = <<Basic("A"), Quotation(<<Basic("A")>>, <<Basic("A")>>)>>
    /\ last.res = Ok(Append(last.before, Quotation(<<Basic("A")>>, <<Basic("A")>>)))
    /\ stack = last.res.val

-----------------------------------------------------------------------------
(* local scopes other than the one of the branch *)
OtherScopes ==
    { <<>>,
      <<(<<"x", Basic("A")>>)>>,
      <<(<<"x", Quotation(<<Basic("A")>>, <<Basic("A")>>)>>)>> }

(* C16 as stated: the verdict and the type of a quotation literal depend on
   its declared inputs, its body and the global table only, and are the same
   under any local scope of the enclosing branch. *)
C16_QuotationIgnoresLocals ==
    AfterLiteral =>
        \A ls \in OtherScopes :
            type_check_expr(ls, ctx, last.expr, last.before) = last.res

(* C16: checking a quotation literal leaves the local scope of the branch as
   the patterns made it, and reads it: a word of the body that a pattern of
   the branch binds resolves to the latest such binding, so that a literal
   whose body is that one word has the type Quotation(I, I followed by the
   bound type); the slot pushed is the same over any enclosing stack. *)
C16_QuotationReadsLocals ==
    AfterLiteral =>
        /\ locals = OwnBindings(top_levels, ctx, i, j)
        /\ \A w \in {"x", "y"} :
              (last.expr.quotation = <<EWord(w)>> /\ Bindings(w) # {}) =>
                 LET top == CHOOSE n \in Bindings(w) : \A m \in Bindings(w) : m <= n
                     I == type_exprs(last.expr.inputs)
                 IN  last.res = Ok(Append(last.before, Quotation(I, Append(I, locals[top][2]))))
        /\ last.res.err = "none" =>
              type_check_expr(locals, ctx, last.expr, <<>>) =
                  Ok(<<last.res.val[Len(last.res.val)]>>)
        /\ last.res.err # "none" =>
              type_check_expr(locals, ctx, last.expr, <<>>) = last.res

(* f([A -> A] A -> A) = (x -> [ -> x] ...): the literal has the type
   [ -> [A -> A]] because x is bound to [A -> A] *)
C16_Witness ==
    /\ last.expr = EQuotation(<<>>, <<EWord("x")>>)
    /\ locals = <<(<<"x", Quotation(<<Basic("A")>>, <<Basic("A")>>)>>)>>
    /\ last.before = <<Basic("A")>>
    /\ last.res = Ok(<<Basic("A"), Quotation(<<>>, <<Quotation(<<Basic("A")>>, <<Basic("A")>>)>>)>>)

-----------------------------------------------------------------------------
(* the insertions the two symbol phases make for a program, in order *)
AllEntries(tl) == constructor_entries(tl, 1) \o def_entries(tl, 1)

(* the signature of the first insertion of the name *)
FirstEntry(tl, name) ==
    LET e == AllEntries(tl)
        first == CHOOSE n \in 1..Len(e) :
                    e[n][1] = name /\ \A m \in 1..(n - 1) : e[m][1] # name
    IN  e[first][2]

(* C17: the global table is append-only: the signature stored for a name is
   the one its first insertion stored, also after a later insertion of the
   name was rejected with SymbolAlreadyDefined. *)
C17_AppendOnly ==
    \A n \in DOMAIN ctx : ctx[n] = FirstEntry(top_levels, n)

-----------------------------------------------------------------------------
(* the call is in type_check_defs *)
CheckingBodies == pc \in {"type_check_defs", "body"}

(* C18: once body checking has begun, no step of type_check_defs (fitting
   and binding the patterns, checking an expression or a nested quotation,
   ending a branch, returning) changes the set of declared type names or
   the global table; while the bodies are checked both are what the
   collection phases built from the program. *)
C18_TablesFrozen ==
    /\ [][CheckingBodies => (types' = types /\ ctx' = ctx)]_vars
    /\ [](CheckingBodies =>
            /\ types = collect_types_loop(top_levels, 1, {}).types
            /\ ctx = insert_loop([n \in {} |-> n], AllEntries(top_levels), 1).ctx)

(* in a body, after a nested quotation was checked under bound locals *)
C18_Witness ==
    /\ pc = "body"
    /\ last.expr.kind = "Quotation"
    /\ last.expr.quotation # <<>>
    /\ locals # <<>>
    /\ Len(stack) >= 2
    /\ DOMAIN ctx = {"T", "S", "dup", "mul", "f"}
    /\ types = {"A"}

-----------------------------------------------------------------------------
(* the place in the body of the expression checked last *)
LastAt == IF last.res.err = "none" THEN k - 1 ELSE k

(* the last step was an Apply that follows a quotation literal at once *)
LiteralApplied ==
    /\ last.expr.kind = "Unquote"
    /\ LastAt >= 2
    /\ top_levels[i].branches[j].body[LastAt - 1].kind = "Quotation"

(* the top slots of the stack st are the types tys *)
TopSlots(st, tys) ==
    /\ Len(tys) <= Len(st)
    /\ SubSeq(st, Len(st) - Len(tys) + 1, Len(st)) = tys

(* C19: a quotation literal followed at once by Apply, over a stack S whose
   top slots are the declared inputs of the literal, leaves the stack that
   the body of the literal leaves when it is checked on S itself. *)
C19_ApplyInlines ==
    LiteralApplied =>
        LET q == top_levels[i].branches[j].body[LastAt - 1]
            S == SubSeq(last.before, 1, Len(last.before) - 1)
        IN  TopSlots(S, type_exprs(q.inputs)) =>
               /\ last.res.err = "none"
               /\ last.res = type_check_exprs(locals, ctx, q.quotation, S, 1)
               /\ stack = last.res.val

(* def f(A -> A) = ([A -> dup mul] !): accepted, one A left *)
C19_Witness ==
    /\ LiteralApplied
    /\ top_levels[i].branches[j].body = <<EQuotation(<<A>>, <<EWord("dup"), EWord("mul")>>), EUnquote>>
    /\ last.before = <<Basic("A"), Quotation(<<Basic("A")>>, <<Basic("A")>>)>>
    /\ stack = <<Basic("A")>>
    /\ pc = "body"

-----------------------------------------------------------------------------
(* a type with no Function in it, at any depth *)
RECURSIVE NoFunctionIn(_)

NoFunctionIn(ty) ==
    \/ ty.tag = "Basic"
    \/ /\ ty.tag = "Quotation"
       /\ \A n \in 1..Len(ty.inputs) : NoFunctionIn(ty.inputs[n])
       /\ \A n \in 1..Len(ty.outputs) : NoFunctionIn(ty.outputs[n])

AllValues(tys) == \A n \in 1..Len(tys) : NoFunctionIn(tys[n])

(* the names the definitions of the program declare *)
DefNames(tl) == {tl[n].name : n \in DefItems(tl)}

(* the entries of the global table that a constructor stored: all of them
   until collect_defs has run, and later those of a name no definition has *)
ConstructorEntries ==
    IF results = <<>> /\ pc \in {"collect_types", "collect_constructors", "collect_defs"}
    THEN DOMAIN ctx
    ELSE DOMAIN ctx \ DefNames(top_levels)

(* C20: every entry of the global table is a Function whose inputs and
   outputs hold no Function, an entry stored by a constructor having the one
   output Basic(T) with T a declared type name; no slot of a stack and no
   type of a local is or holds a Function; so the signature looked up for a
   definition in type_check_defs is always a Function. *)
C20_FunctionsOnlyInTable ==
    /\ \A n \in DOMAIN ctx :
          /\ ctx[n].tag = "Function"
          /\ AllValues(ctx[n].inputs)
          /\ AllValues(ctx[n].outputs)
    /\ \A n \in ConstructorEntries :
          /\ Len(ctx[n].outputs) = 1
          /\ ctx[n].outputs[1].tag = "Basic"
          /\ ctx[n].outputs[1].name \in types
    /\ AllValues(stack)
    /\ AllValues(last.before)
    /\ AllValues(last.res.val)
    /\ \A n \in 1..Len(locals) : NoFunctionIn(locals[n][2])
    /\ (AtBranch \/ pc = "body") =>
          /\ top_levels[i].name \in DOMAIN ctx
          /\ ctx[top_levels[i].name].tag = "Function"

(* in a body, after a call of the constructor T under a bound local, with a
   quotation on the stack *)
C20_Witness ==
    /\ pc = "body"
    /\ last.expr = EWord("T")
    /\ last.res.err = "none"
    /\ locals # <<>>
    /\ \E n \in 1..Len(stack) : stack[n].tag = "Quotation"
    /\ ctx["dup"].tag = "Function"
    /\ ctx["T"].outputs = <<Basic("A")>>

====
